---- MODULE Spec2Model ----
(***************************************************************************)
(* Model of app.py, the Streamlit "Advanced File Downloader".              *)
(*                                                                         *)
(* A run of the script is one step: the module is imported once            *)
(* (ImportModule), then every interaction re-runs main() on one page with  *)
(* the widget values of that interaction.  What a run shows to the user is *)
(* kept in three variables: the download buttons it offered, the messages  *)
(* it displayed and the exception that escaped main(), if any.             *)
(*                                                                         *)
(* Characters are Unicode code points, strings are sequences of code       *)
(* points and byte strings are sequences of numbers in 0..255.             *)
(***************************************************************************)
EXTENDS Integers, Sequences, FiniteSets, TLC

VARIABLES
    installed,              \* optional distributions present in the environment
    pc,                     \* "boot", "ready", "rendered" or "import_error"
    timestr,                \* app.py:31, fixed at import
    XLSXWRITER_AVAILABLE,   \* app.py:12-16
    OPENPYXL_AVAILABLE,     \* app.py:18-22
    PILLOW_AVAILABLE,       \* app.py:24-28
    req,                    \* the widget values of the last run of main()
    missing_deps,           \* app.py:197, of the last run
    downloads,              \* st.download_button calls of the last run, in order
    messages,               \* st.warning / st.error / st.success / link markdown
    raised                  \* exception that escaped the last run, or "none"

vars == <<installed, pc, timestr, XLSXWRITER_AVAILABLE, OPENPYXL_AVAILABLE,
          PILLOW_AVAILABLE, req, missing_deps, downloads, messages, raised>>

----------------------------------------------------------------------------
(* Bounds of the explored inputs *)

MaxLen == 2     \* longest text typed into a text area
MaxCols == 3    \* widest uploaded table
MaxRows == 1    \* longest uploaded table

(* a, line feed, e-acute (latin-1, not ascii), euro sign (neither) *)
Chars == {97, 10, 233, 8364}
CellChars == {97, 233, 8364}
Texts == UNION {[1..n -> Chars] : n \in 0..MaxLen}
Timestamps == {"20240101-000000"}
Prefixes == {<<"document">>}

----------------------------------------------------------------------------
(* Python built-ins used by the script *)

RECURSIVE Concat(_)
Concat(ss) == IF ss = <<>> THEN <<>> ELSE Head(ss) \o Concat(Tail(ss))

RECURSIVE Join(_, _)
Join(ss, sep) ==
    IF ss = <<>> THEN <<>>
    ELSE IF Len(ss) = 1 THEN ss[1]
    ELSE ss[1] \o sep \o Join(Tail(ss), sep)

(* str.split(sep) for a one-character separator: never an empty list *)
RECURSIVE Split(_, _)
Split(s, sep) ==
    IF \A i \in 1..Len(s) : s[i] # sep THEN <<s>>
    ELSE LET k == CHOOSE i \in 1..Len(s) :
                     s[i] = sep /\ \A j \in 1..(i - 1) : s[j] # sep
         IN  <<SubSeq(s, 1, k - 1)>> \o Split(SubSeq(s, k + 1, Len(s)), sep)

(* str.encode('utf-8') of one code point below 2^16 *)
Utf8Char(c) ==
    IF c < 128 THEN <<c>>
    ELSE IF c < 2048 THEN <<192 + (c \div 64), 128 + (c % 64)>>
    ELSE <<224 + (c \div 4096), 128 + ((c \div 64) % 64), 128 + (c % 64)>>

Utf8(s) == Concat([i \in 1..Len(s) |-> Utf8Char(s[i])])

(* the largest code point each codec offered at app.py:80 can represent *)
CodecLimit(encoding) ==
    CASE encoding = "ascii" -> 127
      [] encoding = "iso-8859-1" -> 255
      [] OTHER -> 1114111

CanEncode(s, encoding) == \A i \in 1..Len(s) : s[i] <= CodecLimit(encoding)

(* str.encode(encoding); defined where CanEncode holds *)
Encode(s, encoding) == IF encoding = "utf-8" THEN Utf8(s) ELSE s

HexDigit(d) == IF d < 10 THEN 48 + d ELSE 87 + d
Hex2(n) == <<HexDigit(n \div 16), HexDigit(n % 16)>>
Hex4(n) == Hex2(n \div 256) \o Hex2(n % 256)

(* repr() of one byte inside a bytes literal quoted with quote *)
ReprByte(b, quote) ==
    CASE b = 92 -> <<92, 92>>
      [] b = quote -> <<92, b>>
      [] b = 10 -> <<92, 110>>
      [] b = 13 -> <<92, 114>>
      [] b = 9  -> <<92, 116>>
      [] b \in 32..126 -> <<b>>
      [] OTHER -> <<92, 120>> \o Hex2(b)

(* str(x) of a payload: a str is itself, bytes give their repr b'...',     *)
(* quoted with " when they hold a ' and no "                               *)
PyStr(payload) ==
    IF payload.type = "bytes"
    THEN LET has(c) == \E i \in 1..Len(payload.val) : payload.val[i] = c
             quote == IF has(39) /\ ~has(34) THEN 34 ELSE 39
         IN  <<98, quote>>
             \o Concat([i \in 1..Len(payload.val) |-> ReprByte(payload.val[i], quote)])
             \o <<quote>>
    ELSE payload.val

(* json.dumps of one string, ensure_ascii=True *)
JsonChar(c) ==
    CASE c = 34 -> <<92, 34>>
      [] c = 92 -> <<92, 92>>
      [] c = 10 -> <<92, 110>>
      [] c = 13 -> <<92, 114>>
      [] c = 9  -> <<92, 116>>
      [] c \in 32..126 \ {34, 92} -> <<c>>
      [] c = 127 -> <<c>>
      [] OTHER -> <<92, 117>> \o Hex4(c)

JsonString(s) == <<34>> \o Concat([i \in 1..Len(s) |-> JsonChar(s[i])]) \o <<34>>

(* json.dumps({"content": lines}, indent=indent); indent is 0 for None *)
JsonDumps(lines, indent) ==
    LET key == <<34, 99, 111, 110, 116, 101, 110, 116, 34, 58, 32>>
        pad(n) == [i \in 1..n |-> 32]
    IN  IF indent = 0
        THEN <<123>> \o key \o <<91>>
             \o Join([i \in 1..Len(lines) |-> JsonString(lines[i])], <<44, 32>>)
             \o <<93, 125>>
        ELSE <<123, 10>> \o pad(indent) \o key \o <<91, 10>>
             \o Join([i \in 1..Len(lines) |->
                         pad(2 * indent) \o JsonString(lines[i])], <<44, 10>>)
             \o <<10>> \o pad(indent) \o <<93, 10, 125>>

----------------------------------------------------------------------------
(* pandas: a DataFrame is its column names and its rows of string cells;   *)
(* the index is the default RangeIndex 0..n-1, which has no name.          *)

ColName(j) == <<96 + j>>

(* the n-column, m-row table whose cell in column j and row i is the name  *)
(* of the column, the number of the row and the character fill             *)
Table(n, m, fill) ==
    [columns |-> [j \in 1..n |-> ColName(j)],
     rows    |-> [i \in 1..m |-> [j \in 1..n |-> <<96 + j, 48 + i, fill>>]]]

Tables == {Table(n, m, fill) : n \in 1..MaxCols, m \in 1..MaxRows, fill \in CellChars}

(* the columns of cols whose position is in S, in the order of cols *)
Pick(cols, S) ==
    LET F[i \in 0..Len(cols)] ==
            IF i = 0 THEN <<>>
            ELSE IF i \in S THEN Append(F[i - 1], cols[i]) ELSE F[i - 1]
    IN  F[Len(cols)]

ColumnPos(df, name) == CHOOSE j \in 1..Len(df.columns) : df.columns[j] = name

(* df[selected_columns]: the named columns, in the order of the list *)
SelectColumns(df, selected_columns) ==
    [columns |-> selected_columns,
     rows    |-> [i \in 1..Len(df.rows) |->
                     [k \in 1..Len(selected_columns) |->
                         df.rows[i][ColumnPos(df, selected_columns[k])]]]]

(* str(i) for a row label below 10 *)
IndexLabel(i) == <<48 + i>>

(* csv.writer, QUOTE_MINIMAL *)
CsvField(field, sep) ==
    IF \E i \in 1..Len(field) : field[i] \in {sep, 34, 10, 13}
    THEN <<34>>
         \o Concat([i \in 1..Len(field) |->
                       IF field[i] = 34 THEN <<34, 34>> ELSE <<field[i]>>])
         \o <<34>>
    ELSE field

CsvLine(fields, sep) ==
    IF fields = <<<<>>>> THEN <<34, 34, 10>>
    ELSE Join([k \in 1..Len(fields) |-> CsvField(fields[k], sep)], <<sep>>)
         \o <<10>>

(* DataFrame.to_csv(index=index, sep=sep): a str.  With index=True every   *)
(* line starts with the row label, and the header with the empty name of   *)
(* the index.                                                              *)
to_csv(df, index, sep) ==
    LET lead(label) == IF index THEN <<label>> ELSE <<>>
    IN  CsvLine(lead(<<>>) \o df.columns, sep)
        \o Concat([i \in 1..Len(df.rows) |->
                      CsvLine(lead(IndexLabel(i - 1)) \o df.rows[i], sep)])

Max(S) == CHOOSE m \in S : \A x \in S : x <= m
Spaces(n) == [i \in 1..n |-> 32]
RJust(s, w) == Spaces(w - Len(s)) \o s
LJust(s, w) == s \o Spaces(w - Len(s))

(* DataFrame.to_string() of a frame with at least one row and one column:  *)
(* labels left-justified, columns right-justified, two spaces apart        *)
to_string(df) ==
    LET n == Len(df.columns)
        m == Len(df.rows)
        iw == Max({Len(IndexLabel(i - 1)) : i \in 1..m})
        w(j) == Max({Len(df.columns[j])} \cup {Len(df.rows[i][j]) : i \in 1..m})
        line(label, cells) ==
            LJust(label, iw)
            \o Concat([j \in 1..n |-> <<32, 32>> \o RJust(cells[j], w(j))])
    IN  Join(<<line(<<>>, df.columns)>>
             \o [i \in 1..m |-> line(IndexLabel(i - 1), df.rows[i])], <<10>>)

----------------------------------------------------------------------------
(* Pillow: an image file is its signature followed by its pixel data *)

PngSignature == <<137, 80, 78, 71>>
JpegSignature == <<255, 216, 255>>

StartsWith(b, sig) == Len(b) >= Len(sig) /\ SubSeq(b, 1, Len(sig)) = sig
IsPng(b) == StartsWith(b, PngSignature)
IsJpeg(b) == StartsWith(b, JpegSignature)

Bitmaps == {<<0>>, <<255>>, <<0, 255>>}
ImageFiles ==
    {PngSignature \o p : p \in Bitmaps} \cup {JpegSignature \o p : p \in Bitmaps}
UndecodableFiles == {<<>>, <<110, 111>>}

(* Image.open: identifies the container by its signature, else raises *)
CanDecode(b) == IsPng(b) \/ IsJpeg(b)
ImageOpen(b) ==
    IF IsPng(b) THEN SubSeq(b, Len(PngSignature) + 1, Len(b))
    ELSE SubSeq(b, Len(JpegSignature) + 1, Len(b))

(* Image.save(buffer, format=...) *)
ImageSave(pixels, format) ==
    IF format = "PNG" THEN PngSignature \o pixels ELSE JpegSignature \o pixels

----------------------------------------------------------------------------
(* What a call shows: the download buttons it created, the messages it     *)
(* displayed, and the exception it raised ("none" when it returned).       *)

Fx(dl, msg, exc) == [dl |-> dl, msg |-> msg, exc |-> exc]
NoFx == Fx(<<>>, <<>>, "none")

(* a; b in Python: b does not run when a raised *)
Then(a, b) ==
    IF a.exc # "none" THEN a
    ELSE Fx(a.dl \o b.dl, a.msg \o b.msg, b.exc)

Message(kind, text) == [kind |-> kind, text |-> text]

(* f"{prefix}_{timestr}.{ext}" *)
FileName(prefix, ext) == prefix \o <<"_", timestr, ".", ext>>

(* st.download_button(label, data, file_name, mime); data is a str or bytes *)
Button(label, kind, val, file_name, mime) ==
    [label |-> label, data |-> [kind |-> kind, val |-> val],
     file_name |-> file_name, mime |-> mime]

(* the bytes the browser receives: Streamlit sends a str as UTF-8 *)
Served(d) == IF d.data.kind = "str" THEN Utf8(d.data.val) ELSE d.data.val

----------------------------------------------------------------------------
(* app.py:11-47, optional dependencies *)

OptionalPackages == {"xlsxwriter", "openpyxl", "Pillow"}

(* the module a distribution installs: Pillow installs PIL *)
ModuleOf(package) == IF package = "Pillow" THEN "PIL" ELSE package

(* import name / __import__(name) succeeds *)
Importable(name) == \E p \in installed : ModuleOf(p) = name

requirements ==
    <<[package |-> "xlsxwriter", purpose |-> "Excel export (recommended)"],
      [package |-> "openpyxl", purpose |-> "Excel export (alternative)"],
      [package |-> "Pillow", purpose |-> "Image processing"]>>

check_dependencies ==
    SelectSeq(requirements, LAMBDA r : ~Importable(r.package))

(* app.py:197-202 *)
ReportMissing(missing) ==
    IF missing # <<>>
    THEN Fx(<<>>, <<Message("warning", "Some features require additional packages:")>>
                  \o [i \in 1..Len(missing) |-> Message("code", missing[i].package)],
            "none")
    ELSE NoFx

----------------------------------------------------------------------------
(* app.py:50-132, the three downloader functions *)

text_downloader(raw_text, filename_prefix) ==
    LET new_filename == FileName(filename_prefix, "txt")
    IN  Fx(<<Button(<<"Download as TXT">>, "str", raw_text, new_filename,
                    "text/plain")>>,
           <<[kind |-> "link", text |-> "Right-click and save link as",
              href |-> [mime |-> "file/txt", b64decoded |-> Utf8(raw_text),
                        download |-> new_filename]]>>,
           "none")

(* the encoding chosen at app.py:80 is read and never used *)
csv_downloader(data, filename_prefix, delimiter, encoding) ==
    LET csv == to_csv(data, FALSE, delimiter)
    IN  Fx(<<Button(<<"Download CSV">>, "str", csv,
                    FileName(filename_prefix, "csv"), "text/csv")>>,
           <<>>, "none")

XlsxMime == "application/vnd.openxmlformats-officedocument.spreadsheetml.sheet"

(* How a writer engine behaves on one attempt.  "ok": the workbook is      *)
(* written.  "raise": it raises before anything reaches the buffer.        *)
(* "raise_flushed": to_excel raises inside the with block, and             *)
(* ExcelWriter.__exit__ closes the writer, which saves the workbook built  *)
(* so far into the buffer before the exception propagates.                 *)
Behaviours == {"ok", "raise", "raise_flushed"}

(* the bytes of one saved workbook: who wrote it and what it holds *)
Workbook(engine, data, nrows) ==
    <<[engine |-> engine, sheet_name |-> "Sheet1", columns |-> data.columns,
       rows |-> SubSeq(data.rows, 1, nrows)]>>

(* what one attempt appends to the BytesIO it is given *)
EngineWrite(engine, data, behaviour) ==
    CASE behaviour = "ok" -> Workbook(engine, data, Len(data.rows))
      [] behaviour = "raise_flushed" -> Workbook(engine, data, Len(data.rows) - 1)
      [] OTHER -> <<>>

AvailableEngines ==
    (IF XLSXWRITER_AVAILABLE THEN <<"xlsxwriter">> ELSE <<>>)
    \o (IF OPENPYXL_AVAILABLE THEN <<"openpyxl">> ELSE <<>>)

(* app.py:114-132: the loop over the engines, sharing one output buffer *)
RECURSIVE TryEngines(_, _, _, _, _)
TryEngines(engines, output, data, filename_prefix, beh) ==
    IF engines = <<>>
    THEN Fx(<<>>, <<Message("error",
                "Failed to create Excel file with all available engines")>>, "none")
    ELSE LET engine == Head(engines)
             written == output \o EngineWrite(engine, data, beh[engine])
         IN  IF beh[engine] = "ok"
             THEN Fx(<<Button(<<"Download Excel">>, "bytes", written,
                              FileName(filename_prefix, "xlsx"), XlsxMime)>>,
                     <<>>, "none")
             ELSE TryEngines(Tail(engines), written, data, filename_prefix, beh)

(* excel_downloader without the "if not engines" guard of app.py:104-112,  *)
(* asking pandas for its default engine, which raises when none is there   *)
excel_downloader_unguarded(data, filename_prefix, beh) ==
    IF AvailableEngines = <<>>
    THEN Fx(<<>>, <<>>, "ModuleNotFoundError")
    ELSE TryEngines(AvailableEngines, <<>>, data, filename_prefix, beh)

excel_downloader(data, filename_prefix, beh) ==
    IF AvailableEngines = <<>>
    THEN Fx(<<>>, <<Message("warning",
                "Excel export requires either xlsxwriter or openpyxl package.")>>,
            "none")
    ELSE TryEngines(AvailableEngines, <<>>, data, filename_prefix, beh)

(* app.py:134-140: the archive as its entries, contents as stored bytes *)
create_zip(files) ==
    [i \in 1..Len(files) |->
        [file_name |-> files[i].file_name, content |-> Utf8(files[i].content)]]

----------------------------------------------------------------------------
(* app.py:143-185, class FileDownloader *)

(* str.lower() and str.upper() on the extensions explored *)
Lower(ext) ==
    CASE ext \in {"txt", "TXT"} -> "txt"
      [] ext \in {"csv", "Csv"} -> "csv"
      [] ext \in {"json", "JSON"} -> "json"
      [] ext \in {"xlsx", "XLSX"} -> "xlsx"
      [] ext \in {"png", "PNG"} -> "png"
      [] ext \in {"jpg", "Jpg"} -> "jpg"
      [] ext \in {"zip", "ZIP"} -> "zip"
      [] ext \in {"bin", "BIN"} -> "bin"
      [] OTHER -> ext

Upper(ext) ==
    CASE ext = "txt" -> "TXT"
      [] ext = "csv" -> "CSV"
      [] ext = "json" -> "JSON"
      [] ext = "xlsx" -> "XLSX"
      [] ext = "png" -> "PNG"
      [] ext = "jpg" -> "JPG"
      [] ext = "zip" -> "ZIP"
      [] ext = "bin" -> "BIN"
      [] OTHER -> ext

Extensions ==
    {"txt", "TXT", "csv", "Csv", "json", "JSON", "xlsx", "XLSX", "png", "PNG",
     "jpg", "Jpg", "zip", "ZIP", "bin", "BIN"}

(* **kwargs: a record holding the keywords that were passed *)
NoKwargs == [passed |-> {}]
KwIndex(kwargs) == IF "index" \in kwargs.passed THEN kwargs.index ELSE TRUE
KwSep(kwargs) == IF "sep" \in kwargs.passed THEN kwargs.sep ELSE 44

(* __init__ *)
FileDownloader(data, filename, file_ext, kwargs) ==
    [data |-> data, filename |-> filename, file_ext |-> Lower(file_ext),
     kwargs |-> kwargs]

mime_types ==
    [txt  |-> "text/plain",
     csv  |-> "text/csv",
     json |-> "application/json",
     xlsx |-> "application/vnd.openxmlformats-officedocument.spreadsheetml.sheet",
     png  |-> "image/png",
     jpg  |-> "image/jpeg",
     zip  |-> "application/zip"]

(* _get_mime_type with the JPEG entry keyed "jpeg" instead of "jpg" *)
get_mime_type_jpeg_key(self) ==
    IF self.file_ext = "jpg" THEN "application/octet-stream"
    ELSE IF self.file_ext = "jpeg" THEN "image/jpeg"
    ELSE IF self.file_ext \in DOMAIN mime_types THEN mime_types[self.file_ext]
    ELSE "application/octet-stream"

_get_mime_type(self) ==
    IF self.file_ext \in DOMAIN mime_types
    THEN mime_types[self.file_ext]
    ELSE "application/octet-stream"

(* the final st.download_button of download(), app.py:179-185 *)
Offer(self, kind, val) ==
    Fx(<<Button(<<"Download as ", Upper(self.file_ext)>>, kind, val,
                FileName(self.filename, self.file_ext), _get_mime_type(self))>>,
       <<>>, "none")

(* download() with a payload type check in front *)
download_checked(self, beh) ==
    IF \/ self.data.type = "str" /\ self.file_ext \in {"txt", "json"}
       \/ self.data.type = "DataFrame" /\ self.file_ext \in {"csv", "xlsx"}
       \/ self.data.type = "bytes" /\ self.file_ext \in {"png", "jpg"}
    THEN IF self.data.type = "DataFrame"
         THEN IF self.file_ext = "csv"
              THEN Offer(self, "str", to_csv(self.data.val, KwIndex(self.kwargs),
                                             KwSep(self.kwargs)))
              ELSE excel_downloader(self.data.val, self.filename, beh)
         ELSE IF self.data.type = "bytes"
         THEN Offer(self, "bytes", self.data.val)
         ELSE Offer(self, "bytes", Utf8(self.data.val))
    ELSE Fx(<<>>, <<Message("error", "InvalidPayloadType")>>, "none")

(* download(); beh is how the writer engines behave if they are called *)
download(self, beh) ==
    IF self.data.type = "DataFrame"
    THEN IF self.file_ext = "csv"
         THEN Offer(self, "str",
                    to_csv(self.data.val, KwIndex(self.kwargs), KwSep(self.kwargs)))
         ELSE IF self.file_ext = "xlsx"
         THEN excel_downloader(self.data.val, self.filename, beh)
         ELSE Offer(self, "str", to_string(self.data.val))
    ELSE IF self.file_ext \in {"png", "jpg"} /\ PILLOW_AVAILABLE
    THEN Offer(self, self.data.type, self.data.val)
    ELSE Offer(self, "bytes", Utf8(PyStr(self.data)))

(* the engine behaviours of a call that reaches no writer engine *)
NoEngine == <<>>

Str(text) == [type |-> "str", val |-> text]
Bytes(b) == [type |-> "bytes", val |-> b]
DataFrame(df) == [type |-> "DataFrame", val |-> df]

----------------------------------------------------------------------------
(* app.py:188-344, the pages of main() *)

(* app.py:227-236, after "Generate Download Link" was pressed *)
TextDownloaderPage(my_text, filename) ==
    Then(text_downloader(my_text, filename),
    Then(download(FileDownloader(Str(my_text), filename, "txt", NoKwargs), NoEngine),
         download(FileDownloader(Str(my_text), filename, "json", NoKwargs), NoEngine)))

(* pd.read_csv / pd.read_excel of the upload; read_excel of an .xlsx file  *)
(* imports openpyxl                                                        *)
ReadRaises(uploaded_file) ==
    IF uploaded_file.ext = "csv"
    THEN IF uploaded_file.parses THEN "none" ELSE "ParserError"
    ELSE IF ~Importable("openpyxl") THEN "ImportError"
    ELSE IF uploaded_file.parses THEN "none" ELSE "BadZipFile"

(* app.py:268-274 *)
AdvancedExport(df, filename, selected_columns, beh2) ==
    IF selected_columns # <<>>
    THEN LET filtered_df == SelectColumns(df, selected_columns)
             name == filename \o <<"_filtered">>
         IN  Then(download(FileDownloader(DataFrame(filtered_df), name, "csv",
                                          NoKwargs), beh2),
                  download(FileDownloader(DataFrame(filtered_df), name, "xlsx",
                                          NoKwargs), beh2))
    ELSE NoFx

(* app.py:243-277; the except clause turns any exception into st.error *)
CsvExcelToolsPage(uploaded_file, filename, delimiter, encoding, selected_columns, beh1, beh2) ==
    IF ReadRaises(uploaded_file) # "none"
    THEN Fx(<<>>, <<Message("error", "Error processing file")>>, "none")
    ELSE LET df == uploaded_file.df
         IN  Then(Fx(<<>>, <<Message("success", "File successfully loaded!")>>,
                     "none"),
             Then(csv_downloader(df, filename, delimiter, encoding),
             Then(excel_downloader(df, filename, beh1),
                  AdvancedExport(df, filename, selected_columns, beh2))))

(* app.py:282-299 *)
ImageToolsPage(uploaded_image, filename) ==
    IF ~PILLOW_AVAILABLE
    THEN Fx(<<>>, <<Message("warning",
                "Image processing requires Pillow package.")>>, "none")
    ELSE IF ~CanDecode(uploaded_image)
    THEN Fx(<<>>, <<>>, "UnidentifiedImageError")
    ELSE LET image == ImageOpen(uploaded_image)
             img_buffer == ImageSave(image, "PNG")
         IN  Then(download(FileDownloader(Bytes(img_buffer), filename, "png",
                                          NoKwargs), NoEngine),
                  download(FileDownloader(Bytes(img_buffer), filename, "jpg",
                                          NoKwargs), NoEngine))

(* str.split(): the maximal runs of non-whitespace characters *)
RECURSIVE Words(_)
Words(s) ==
    LET ws == {9, 10, 13, 32}
    IN  IF s = <<>> THEN <<>>
        ELSE IF Head(s) \in ws THEN Words(Tail(s))
        ELSE LET stop == {i \in 1..Len(s) : s[i] \in ws}
                 k == IF stop = {} THEN Len(s) + 1
                      ELSE CHOOSE i \in stop : \A j \in stop : i <= j
             IN  <<SubSeq(s, 1, k - 1)>> \o Words(SubSeq(s, k, Len(s)))

(* pd.DataFrame(list of lists) with at least one non-empty list: columns   *)
(* 0..n-1, short rows padded with missing values, which to_csv writes as   *)
(* empty fields                                                            *)
FrameOfLists(lists) ==
    LET n == Max({Len(lists[i]) : i \in 1..Len(lists)})
    IN  [columns |-> [j \in 1..n |-> IndexLabel(j - 1)],
         rows |-> [i \in 1..Len(lists) |->
                      [j \in 1..n |-> IF j <= Len(lists[i]) THEN lists[i][j]
                                      ELSE <<>>]]]

(* app.py:308-323 *)
MultiFileExportPage(data_input) ==
    IF data_input # <<>>
    THEN LET lines == Split(data_input, 10)
             files_to_zip ==
                 <<[file_name |-> "data.txt", content |-> data_input],
                   [file_name |-> "data.csv",
                    content |-> to_csv(FrameOfLists([i \in 1..Len(lines) |->
                                                    Words(lines[i])]), FALSE, 44)],
                   [file_name |-> "data.json",
                    content |-> JsonDumps(lines, 2)]>>
             zip_data == create_zip(files_to_zip)
         IN  Fx(<<Button(<<"Download as ZIP">>, "bytes", zip_data,
                         <<"multi_export", "_", timestr, ".", "zip">>,
                         "application/zip")>>, <<>>, "none")
    ELSE NoFx

----------------------------------------------------------------------------
(* The state machine *)

Init ==
    /\ installed \in SUBSET OptionalPackages
    /\ pc = "boot"
    /\ timestr = "unset"
    /\ XLSXWRITER_AVAILABLE = FALSE
    /\ OPENPYXL_AVAILABLE = FALSE
    /\ PILLOW_AVAILABLE = FALSE
    /\ req = [page |-> "none"]
    /\ missing_deps = <<>>
    /\ downloads = <<>>
    /\ messages = <<>>
    /\ raised = "none"

(* app.py:1-31: the imports at the top of the module.  Line 8 imports PIL  *)
(* outside any try, so without Pillow the import of the script fails.      *)
ImportModule ==
    /\ pc = "boot"
    /\ IF Importable("PIL")
       THEN /\ pc' = "ready"
            /\ XLSXWRITER_AVAILABLE' = Importable("xlsxwriter")
            /\ OPENPYXL_AVAILABLE' = Importable("openpyxl")
            /\ PILLOW_AVAILABLE' = Importable("PIL")
            /\ timestr' \in Timestamps
            /\ raised' = "none"
       ELSE /\ pc' = "import_error"
            /\ raised' = "ImportError"
            /\ UNCHANGED <<XLSXWRITER_AVAILABLE, OPENPYXL_AVAILABLE,
                           PILLOW_AVAILABLE, timestr>>
    /\ UNCHANGED <<installed, req, missing_deps, downloads, messages>>

(* one run of main() with the widget values r, whose page shows fx *)
RunMain(r, fx) ==
    LET missing == check_dependencies
        shown == Then(ReportMissing(missing), fx)
    IN  /\ pc = "ready"
        /\ pc' = "rendered"
        /\ req' = r
        /\ missing_deps' = missing
        /\ downloads' = shown.dl
        /\ messages' = shown.msg
        /\ raised' = shown.exc
        /\ UNCHANGED <<installed, timestr, XLSXWRITER_AVAILABLE,
                       OPENPYXL_AVAILABLE, PILLOW_AVAILABLE>>

(* the behaviours of the engines a call can reach; an engine after one     *)
(* that succeeds is never called, so its behaviour is left at "ok"         *)
EngineBehaviours ==
    LET E == {AvailableEngines[i] : i \in 1..Len(AvailableEngines)}
    IN  {b \in [E -> Behaviours] :
            \A i \in 1..Len(AvailableEngines) :
                \A j \in (i + 1)..Len(AvailableEngines) :
                    b[AvailableEngines[i]] = "ok" => b[AvailableEngines[j]] = "ok"}

AllOk == [e \in {AvailableEngines[i] : i \in 1..Len(AvailableEngines)} |-> "ok"]

TextDownloader ==
    /\ pc = "ready"
    /\ \E my_text \in Texts, filename \in Prefixes, clicked \in BOOLEAN :
        RunMain([page |-> "Text Downloader", my_text |-> my_text,
                 filename |-> filename, clicked |-> clicked],
                IF clicked THEN TextDownloaderPage(my_text, filename) ELSE NoFx)

Delimiters == {44, 59, 9, 124}
Encodings == {"utf-8", "ascii", "iso-8859-1"}

UploadedFiles ==
    [ext : {"csv", "xlsx"}, parses : {TRUE}, df : Tables]
    \cup [ext : {"csv", "xlsx"}, parses : {FALSE}, df : {Table(1, 1, 97)}]

CsvExcelTools ==
    /\ pc = "ready"
    /\ \E uploaded_file \in UploadedFiles, filename \in Prefixes,
       delimiter \in Delimiters, encoding \in Encodings,
       S \in SUBSET (1..MaxCols), beh1 \in EngineBehaviours,
       beh2 \in EngineBehaviours :
        LET loaded == ReadRaises(uploaded_file) = "none"
            selected_columns == Pick(uploaded_file.df.columns, S)
        IN  /\ S \subseteq 1..Len(uploaded_file.df.columns)
            /\ ~loaded => /\ delimiter = 44 /\ encoding = "utf-8" /\ S = {}
                          /\ beh1 = AllOk
            /\ (~loaded \/ S = {}) => beh2 = AllOk
            /\ RunMain([page |-> "CSV/Excel Tools", uploaded_file |-> uploaded_file,
                        filename |-> filename, delimiter |-> delimiter,
                        encoding |-> encoding,
                        selected_columns |-> selected_columns,
                        beh1 |-> beh1, beh2 |-> beh2],
                       CsvExcelToolsPage(uploaded_file, filename, delimiter,
                                         encoding, selected_columns, beh1, beh2))

ImageTools ==
    /\ pc = "ready"
    /\ \E uploaded_image \in ImageFiles \cup UndecodableFiles, filename \in Prefixes :
        RunMain([page |-> "Image Tools", uploaded_image |-> uploaded_image,
                 filename |-> filename],
                ImageToolsPage(uploaded_image, filename))

(* the texts with at least one word *)
MultiFileInputs == {t \in Texts : Words(t) # <<>>}

MultiFileExport ==
    /\ pc = "ready"
    /\ \E data_input \in MultiFileInputs \cup {<<>>} :
        RunMain([page |-> "Multi-File Export", data_input |-> data_input],
                MultiFileExportPage(data_input))

(* the pages that show no export: About, and the upload pages before a     *)
(* file is chosen                                                          *)
NothingToExport ==
    /\ pc = "ready"
    /\ \E page \in {"About", "CSV/Excel Tools", "Image Tools"} :
        /\ page = "Image Tools" => PILLOW_AVAILABLE
        /\ RunMain([page |-> page, uploaded |-> FALSE], NoFx)

Payloads ==
    {Str(t) : t \in Texts} \cup {DataFrame(df) : df \in Tables}
    \cup {Bytes(b) : b \in ImageFiles \cup UndecodableFiles}

KwargsChoices == {NoKwargs, [passed |-> {"index"}, index |-> FALSE]}

(* FileDownloader(data, filename, file_ext, **kwargs).download() called on *)
(* its own, with any payload and any extension                             *)
DownloadCall ==
    /\ pc = "ready"
    /\ \E data \in Payloads, filename \in Prefixes, file_ext \in Extensions,
       kwargs \in KwargsChoices, beh \in EngineBehaviours :
        LET self == FileDownloader(data, filename, file_ext, kwargs)
            shown == download(self, beh)
        IN  /\ pc = "ready"
            /\ ~(data.type = "DataFrame" /\ self.file_ext = "csv")
                   => kwargs = NoKwargs
            /\ ~(data.type = "DataFrame" /\ self.file_ext = "xlsx")
                   => beh = AllOk
            /\ pc' = "rendered"
            /\ req' = [page |-> "FileDownloader", data |-> data,
                       filename |-> filename, file_ext |-> file_ext,
                       kwargs |-> kwargs, beh |-> beh]
            /\ downloads' = shown.dl
            /\ messages' = shown.msg
            /\ raised' = shown.exc
            /\ UNCHANGED <<installed, timestr, XLSXWRITER_AVAILABLE,
                           OPENPYXL_AVAILABLE, PILLOW_AVAILABLE, missing_deps>>

(* the next interaction: Streamlit runs the script again from a clean page *)
Rerun ==
    /\ pc = "rendered"
    /\ pc' = "ready"
    /\ req' = [page |-> "none"]
    /\ missing_deps' = <<>>
    /\ downloads' = <<>>
    /\ messages' = <<>>
    /\ raised' = "none"
    /\ UNCHANGED <<installed, timestr, XLSXWRITER_AVAILABLE, OPENPYXL_AVAILABLE,
                   PILLOW_AVAILABLE>>

Next ==
    \/ ImportModule
    \/ TextDownloader
    \/ CsvExcelTools
    \/ ImageTools
    \/ MultiFileExport
    \/ NothingToExport
    \/ DownloadCall
    \/ Rerun

Spec == Init /\ [][Next]_vars

----------------------------------------------------------------------------
(* Properties *)

Offered == {downloads[i] : i \in 1..Len(downloads)}
Shown == {messages[i] : i \in 1..Len(messages)}
Ext(d) == d.file_name[Len(d.file_name)]
OfferedAs(ext) == {d \in Offered : Ext(d) = ext}
Labelled(label) == {i \in 1..Len(downloads) : downloads[i].label = label}

(* the header line of a csv text, split at the delimiter *)
CsvHeader(csv, sep) == Split(Head(Split(csv, 10)), sep)

(* the format -> MIME table of the specification *)
TableMime(ext) ==
    CASE ext = "txt" -> "text/plain"
      [] ext = "csv" -> "text/csv"
      [] ext = "json" -> "application/json"
      [] ext = "xlsx" ->
            "application/vnd.openxmlformats-officedocument.spreadsheetml.sheet"
      [] ext = "png" -> "image/png"
      [] ext = "jpg" -> "image/jpeg"
      [] ext = "zip" -> "application/zip"
      [] OTHER -> "application/octet-stream"

DirectCall == pc = "rendered" /\ req.page = "FileDownloader"
OnPage(page) == pc = "rendered" /\ req.page = page
Loaded == OnPage("CSV/Excel Tools") /\ "uploaded_file" \in DOMAIN req
          /\ ReadRaises(req.uploaded_file) = "none"

(* C1: every download that download() offers has a file name ending in    *)
(* "." and the lower-cased file_ext, and the MIME type the fixed table     *)
(* gives for that extension (application/octet-stream outside the table),  *)
(* the xlsx path through excel_downloader included; every other download   *)
(* button of the script pairs extension and MIME type the same way.        *)
C1_MimeAndExtensionConsistent ==
    \A d \in Offered :
        /\ Len(d.file_name) >= 2
        /\ d.file_name[Len(d.file_name) - 1] = "."
        /\ d.mime = TableMime(Ext(d))
        /\ DirectCall => Ext(d) = Lower(req.file_ext)

(* C1 witness: an upper-case XLSX export of a table went through           *)
(* excel_downloader and offered a download.                                *)
C1_Witness ==
    /\ DirectCall
    /\ req.file_ext = "XLSX"
    /\ req.data.type = "DataFrame"
    /\ Len(downloads) = 1

(* the engine behaviours of the excel_downloader calls of the last run *)
ExcelCalls ==
    IF DirectCall
    THEN IF req.data.type = "DataFrame" /\ Lower(req.file_ext) = "xlsx"
         THEN <<req.beh>> ELSE <<>>
    ELSE IF Loaded
    THEN <<req.beh1>> \o (IF req.selected_columns # <<>> THEN <<req.beh2>> ELSE <<>>)
    ELSE <<>>

EveryEngineFails(beh) == \A e \in DOMAIN beh : beh[e] # "ok"

ExcelNotices ==
    {i \in 1..Len(messages) :
        messages[i].text \in
            {"Excel export requires either xlsxwriter or openpyxl package.",
             "Failed to create Excel file with all available engines"}}

(* C2: an excel_downloader call with no engine available, or whose every   *)
(* available engine fails, offers no download, shows one message and       *)
(* returns without raising; the calls with a working engine offer one      *)
(* download each.                                                          *)
C2_ExportUnavailableIsSoft ==
    LET failing == {i \in 1..Len(ExcelCalls) : EveryEngineFails(ExcelCalls[i])}
    IN  ExcelCalls # <<>> =>
            /\ raised = "none"
            /\ Cardinality(ExcelNotices) = Cardinality(failing)
            /\ Cardinality(Labelled(<<"Download Excel">>))
                   = Len(ExcelCalls) - Cardinality(failing)

(* C2 witness: both engines were available, both failed, and the call      *)
(* ended with the message and no download.                                 *)
C2_Witness ==
    /\ DirectCall
    /\ Len(ExcelCalls) = 1
    /\ DOMAIN req.beh = {"xlsxwriter", "openpyxl"}
    /\ EveryEngineFails(req.beh)
    /\ downloads = <<>>
    /\ Cardinality(ExcelNotices) = 1

(* C3: the json export of the Text Downloader page carries the JSON object *)
(* {"content": lines}, lines being the text split on line breaks.          *)
C3_JsonWrapsLines ==
    (OnPage("Text Downloader") /\ req.clicked) =>
        LET lines == Split(req.my_text, 10)
        IN  /\ OfferedAs("json") # {}
            /\ \A d \in OfferedAs("json") :
                   Served(d) \in {Utf8(JsonDumps(lines, 0)), Utf8(JsonDumps(lines, 2))}

(* C4: the csv of the Advanced Export has as header exactly the selected   *)
(* columns, in schema order, and nothing else.                             *)
C4_HeaderIsSelectedColumns ==
    (Loaded /\ req.selected_columns # <<>>) =>
        /\ Labelled(<<"Download as ", "CSV">>) # {}
        /\ \A i \in Labelled(<<"Download as ", "CSV">>) :
               CsvHeader(downloads[i].data.val, 44) = req.selected_columns

(* C5: csv_downloader serializes with the chosen encoding; when the        *)
(* encoding cannot represent the data the export fails with an error and   *)
(* no download is offered.                                                 *)
C5_CsvUsesChosenEncoding ==
    Loaded =>
        LET csv == to_csv(req.uploaded_file.df, FALSE, req.delimiter)
            offered == Labelled(<<"Download CSV">>)
        IN  IF CanEncode(csv, req.encoding)
            THEN /\ offered # {}
                 /\ \A i \in offered :
                        Served(downloads[i]) = Encode(csv, req.encoding)
            ELSE /\ offered = {}
                 /\ \E m \in Shown : m.kind = "error"

Decoded == OnPage("Image Tools") /\ "uploaded_image" \in DOMAIN req
           /\ CanDecode(req.uploaded_image)
Undecodable == OnPage("Image Tools") /\ "uploaded_image" \in DOMAIN req
               /\ ~CanDecode(req.uploaded_image)

(* C6: for a decoded image, the jpg download carries JPEG-encoded bytes    *)
(* and the png download PNG-encoded bytes.                                 *)
C6_ImageReencoded ==
    Decoded =>
        /\ OfferedAs("png") # {} /\ OfferedAs("jpg") # {}
        /\ \A d \in OfferedAs("png") : IsPng(Served(d))
        /\ \A d \in OfferedAs("jpg") : IsJpeg(Served(d))

(* C7: when the upload does not decode, the failure is caught and shown    *)
(* as an error message, no download is offered and no exception escapes    *)
(* the run.                                                                *)
C7_DecodeFailureCaught ==
    Undecodable =>
        /\ raised = "none"
        /\ downloads = <<>>
        /\ \E m \in Shown : m.kind = "error"

Compatible(type, ext) ==
    \/ type = "str" /\ ext \in {"txt", "json"}
    \/ type = "DataFrame" /\ ext \in {"csv", "xlsx"}
    \/ type = "bytes" /\ ext \in {"png", "jpg"}

C9_MissingPackagesAreSoft ==
    /\ pc # "import_error"
    /\ (pc = "rendered" /\ req.page \notin {"FileDownloader"}) =>
           \A p \in OptionalPackages :
               (\E i \in 1..Len(missing_deps) : missing_deps[i].package = p)
                   <=> p \notin installed

(* C10: when xlsxwriter raises and openpyxl succeeds, exactly one download *)
(* is offered and its bytes are exactly the workbook openpyxl wrote.       *)
C10_FallbackBytesAreClean ==
    (/\ DirectCall
     /\ Len(ExcelCalls) = 1
     /\ DOMAIN req.beh = {"xlsxwriter", "openpyxl"}
     /\ req.beh["xlsxwriter"] # "ok"
     /\ req.beh["openpyxl"] = "ok") =>
        /\ Len(downloads) = 1
        /\ downloads[1].data.val
               = Workbook("openpyxl", req.data.val, Len(req.data.val.rows))

====
